---- MODULE Spec2Model ----
(***************************************************************************)
(* The stacked state machine of phantom_app (crates/phantom_app/src/       *)
(* state.rs).  A State object is identified by a number; its hooks are the *)
(* environment: every hook invocation returns Ok or an error, and update / *)
(* on_event return a Transition.  Each action is one call of a public      *)
(* method of StateMachine; the hook invocations of that call are recorded  *)
(* in `calls`, and the machine before the call in preStates / preRunning.  *)
(*                                                                         *)
(* The wgpu renderer (crates/phantom_render/src/wgpu.rs) is the record     *)
(* `renderer`; the last resize / render call on it is recorded in `rcall`. *)
(* SpecRender is the renderer alone: every resize and render call, with    *)
(* the outcome of the surface acquisition an input.                        *)
(***************************************************************************)
EXTENDS Integers, Sequences, FiniteSets, TLC

\* Number of distinct State objects that may be alive at once.
NumStateIds == 3
\* Push / Pop transitions are counted up to this number.
MaxCount == 3
\* Widths and heights run from 0 to this number.
MaxDim == 3

StateIds == 1..NumStateIds
\* The state handed to StateMachine::new.
InitialState == 1

VARIABLES
    states,      \* StateMachine.states, bottom first, top last
    running,     \* StateMachine.running
    op,          \* the last method called and its inputs
    calls,       \* the hook invocations of the last call, in order
    result,      \* what the last call returned
    preStates,   \* states before the last call
    preRunning,  \* running before the last call
    started,     \* history: start() has succeeded
    stopFailed,  \* history: some on_stop has returned an error
    pauseFailed, \* history: some on_pause has returned an error since start
    onlyPushPop, \* history: only None/Push/Pop were applied, at most MaxCount each
    pushes,      \* history: Push transitions applied since start
    pops,        \* history: Pop transitions applied since start
    freshStarts, \* history: the calls of the start() calls made first and in a row
    renderer,    \* WgpuRenderer: dimensions, config, the configured surface, depth buffer
    rcall,       \* the last Renderer call: its inputs, its steps, what it returned
    control_flow, \* the ControlFlow the event loop closure leaves: Poll or Exit
    iter         \* the last run_loop iteration: its event, its steps, what it returned

vars == <<states, running, op, calls, result, preStates, preRunning,
          started, stopFailed, pauseFailed, onlyPushPop, pushes, pops,
          freshStarts, renderer, rcall, control_flow, iter>>

machineVars == <<states, running, op, calls, result, preStates, preRunning,
                 started, stopFailed, pauseFailed, onlyPushPop, pushes, pops,
                 freshStarts>>

rendererVars == <<renderer, rcall>>

appVars == <<control_flow, iter>>

----------------------------------------------------------------------------
\* Transition (state.rs:67-73)

TransitionNone == [kind |-> "None", state |-> 0]
TransitionPop == [kind |-> "Pop", state |-> 0]
TransitionQuit == [kind |-> "Quit", state |-> 0]
TransitionPush(s) == [kind |-> "Push", state |-> s]
TransitionSwitch(s) == [kind |-> "Switch", state |-> s]

\* The transitions a callback can hand to a machine whose stack is st: a
\* pushed state is a newly allocated object, so it is not one on the stack.
Transitions(st) ==
    {TransitionNone, TransitionPop, TransitionQuit}
        \cup {TransitionPush(s) : s \in StateIds \ {st[i] : i \in 1..Len(st)}}
        \cup {TransitionSwitch(s) : s \in StateIds \ {st[i] : i \in 1..Len(st)}}

\* A hook fails at most once per call (the first error aborts the call):
\* fail = n > 0 makes the n-th hook invocation of the call return an error.
FailChoices == 0..(NumStateIds + 1)

Top(st) == st[Len(st)]
Front(st) == SubSeq(st, 1, Len(st) - 1)

\* A call in progress: the machine, the hooks invoked so far, the result so
\* far, the countdown to the failing hook, and the transition that reached
\* StateMachine::transition while running.
Begin(st, run, fail) ==
    [states |-> st, running |-> run, calls |-> <<>>, res |-> "Ok",
     fail |-> fail, req |-> "none"]

\* One invocation of hook h on state s; `?` propagates its error.
Invoke(m, h, s) ==
    IF m.res # "Ok" THEN m
    ELSE IF m.fail = 1
         THEN [m EXCEPT !.calls = Append(@, [hook |-> h, state |-> s, ok |-> FALSE]),
                        !.res = "HookError", !.fail = 0]
         ELSE [m EXCEPT !.calls = Append(@, [hook |-> h, state |-> s, ok |-> TRUE]),
                        !.fail = IF @ = 0 THEN 0 ELSE @ - 1]

----------------------------------------------------------------------------
\* StateMachine (state.rs:75-189)

\* current_state through first_mut: the bottom of the stack.
current_state_first(st) ==
    IF st = <<>> THEN [ok |-> FALSE, state |-> 0, error |-> "EmptyStack"]
    ELSE [ok |-> TRUE, state |-> Head(st), error |-> "none"]

\* current_state: the top of the stack, or the empty-stack error.
current_state(st) ==
    IF st = <<>> THEN [ok |-> FALSE, state |-> 0, error |-> "EmptyStack"]
    ELSE [ok |-> TRUE, state |-> Top(st), error |-> "none"]

is_running(run) == run

\* start without the running guard.
start_unguarded(m) ==
    IF ~current_state(m.states).ok
    THEN [m EXCEPT !.res = "EmptyStack"]
    ELSE LET m1 == Invoke(m, "on_start", current_state(m.states).state)
         IN  IF m1.res = "Ok" THEN [m1 EXCEPT !.running = TRUE] ELSE m1

\* start that sets running before it calls on_start.
start_running_first(m) ==
    IF m.running THEN m
    ELSE IF ~current_state(m.states).ok
         THEN [m EXCEPT !.res = "EmptyStack"]
         ELSE Invoke([m EXCEPT !.running = TRUE], "on_start",
                     current_state(m.states).state)

start(m) ==
    IF m.running THEN m
    ELSE IF ~current_state(m.states).ok
         THEN [m EXCEPT !.res = "EmptyStack"]
         ELSE LET m1 == Invoke(m, "on_start", current_state(m.states).state)
              IN  IF m1.res = "Ok" THEN [m1 EXCEPT !.running = TRUE] ELSE m1

\* switch written as a push: the old top is paused and kept.
switch_pausing(m, s) ==
    IF ~m.running THEN m
    ELSE LET m1 == IF m.states # <<>> THEN Invoke(m, "on_pause", Top(m.states)) ELSE m
             m2 == IF m1.res = "Ok" THEN [m1 EXCEPT !.states = Append(@, s)] ELSE m1
         IN  IF m2.res = "Ok" THEN Invoke(m2, "on_start", Top(m2.states)) ELSE m2

switch(m, s) ==
    IF ~m.running THEN m
    ELSE LET m1 == IF m.states # <<>>
                   THEN Invoke([m EXCEPT !.states = Front(@)], "on_stop", Top(m.states))
                   ELSE m
             m2 == IF m1.res = "Ok" THEN [m1 EXCEPT !.states = Append(@, s)] ELSE m1
         IN  IF m2.res = "Ok" THEN Invoke(m2, "on_start", current_state(m2.states).state)
             ELSE m2

\* push that starts the new state before pausing the old one.
push_start_first(m, s) ==
    IF ~m.running THEN m
    ELSE LET m1 == Invoke([m EXCEPT !.states = Append(@, s)], "on_start", s)
         IN  IF m1.res = "Ok" /\ m.states # <<>>
             THEN Invoke(m1, "on_pause", Top(m.states))
             ELSE m1

\* push that takes the new state off again when its on_start fails.
push_rolling_back(m, s) ==
    IF ~m.running THEN m
    ELSE LET m1 == IF current_state(m.states).ok
                   THEN Invoke(m, "on_pause", current_state(m.states).state)
                   ELSE m
             m2 == IF m1.res = "Ok" THEN [m1 EXCEPT !.states = Append(@, s)] ELSE m1
             m3 == IF m2.res = "Ok"
                   THEN Invoke(m2, "on_start", current_state(m2.states).state)
                   ELSE m2
         IN  IF m2.res = "Ok" /\ m3.res # "Ok" THEN [m3 EXCEPT !.states = m.states]
             ELSE m3

push(m, s) ==
    IF ~m.running THEN m
    ELSE LET m1 == IF current_state(m.states).ok
                   THEN Invoke(m, "on_pause", current_state(m.states).state)
                   ELSE m
             m2 == IF m1.res = "Ok" THEN [m1 EXCEPT !.states = Append(@, s)] ELSE m1
         IN  IF m2.res = "Ok" THEN Invoke(m2, "on_start", current_state(m2.states).state)
             ELSE m2

\* pop that resumes the state beneath before stopping the popped one.
pop_resume_first(m) ==
    IF ~m.running THEN m
    ELSE IF m.states = <<>> THEN [m EXCEPT !.running = FALSE]
    ELSE LET m0 == [m EXCEPT !.states = Front(@)]
             m1 == IF m0.states # <<>> THEN Invoke(m0, "on_resume", Top(m0.states)) ELSE m0
             m2 == Invoke(m1, "on_stop", Top(m.states))
         IN  IF m2.res = "Ok" /\ m2.states = <<>> THEN [m2 EXCEPT !.running = FALSE]
             ELSE m2

\* pop that stops the top state through last_mut, leaving it on the stack.
pop_no_remove(m) ==
    IF ~m.running THEN m
    ELSE LET m1 == IF m.states # <<>> THEN Invoke(m, "on_stop", Top(m.states)) ELSE m
         IN  IF m1.res # "Ok" THEN m1
             ELSE IF m1.states # <<>> THEN Invoke(m1, "on_resume", Top(m1.states))
             ELSE [m1 EXCEPT !.running = FALSE]

\* pop that clears running whether or not a state is left beneath.
pop_always_stopping(m) ==
    IF ~m.running THEN m
    ELSE LET m1 == IF m.states # <<>>
                   THEN Invoke([m EXCEPT !.states = Front(@)], "on_stop", Top(m.states))
                   ELSE m
             m2 == IF m1.states # <<>> THEN Invoke(m1, "on_resume", Top(m1.states)) ELSE m1
         IN  IF m1.res # "Ok" THEN m1
             ELSE IF m2.res # "Ok" THEN m2
             ELSE [m2 EXCEPT !.running = FALSE]

pop(m) ==
    IF ~m.running THEN m
    ELSE LET m1 == IF m.states # <<>>
                   THEN Invoke([m EXCEPT !.states = Front(@)], "on_stop", Top(m.states))
                   ELSE m
         IN  IF m1.res # "Ok" THEN m1
             ELSE IF m1.states # <<>> THEN Invoke(m1, "on_resume", Top(m1.states))
             ELSE [m1 EXCEPT !.running = FALSE]

\* The while-let loop of stop: pop and on_stop until empty or an error.
\* A drain that stops the states bottom first.
RECURSIVE drain_bottom_up(_)
drain_bottom_up(m) ==
    IF m.res # "Ok" \/ m.states = <<>> THEN m
    ELSE drain_bottom_up(Invoke([m EXCEPT !.states = Tail(@)], "on_stop", Head(m.states)))

\* A drain that calls on_stop on the top state and removes it afterwards.
RECURSIVE drain_stop_first(_)
drain_stop_first(m) ==
    IF m.res # "Ok" \/ m.states = <<>> THEN m
    ELSE LET m1 == Invoke(m, "on_stop", Top(m.states))
         IN  IF m1.res # "Ok" THEN m1
             ELSE drain_stop_first([m1 EXCEPT !.states = Front(@)])

RECURSIVE drain(_)
drain(m) ==
    IF m.res # "Ok" \/ m.states = <<>> THEN m
    ELSE drain(Invoke([m EXCEPT !.states = Front(@)], "on_stop", Top(m.states)))

\* stop that drains the stack and leaves running set.
stop_keep_running(m) ==
    IF ~m.running THEN m ELSE drain(m)

stop(m) ==
    IF ~m.running THEN m
    ELSE LET m1 == drain(m)
         IN  IF m1.res = "Ok" THEN [m1 EXCEPT !.running = FALSE] ELSE m1

transition(m, request) ==
    IF ~m.running THEN m
    ELSE LET m0 == [m EXCEPT !.req = request.kind]
         IN  CASE request.kind = "None" -> m0
               [] request.kind = "Pop" -> pop(m0)
               [] request.kind = "Push" -> push(m0, request.state)
               [] request.kind = "Switch" -> switch(m0, request.state)
               [] request.kind = "Quit" -> stop(m0)

\* handle_event without the running guard.
handle_event_unguarded(m, tr) ==
    LET m1 == IF m.states # <<>> THEN Invoke(m, "on_event", Top(m.states)) ELSE m
        t  == IF m.states # <<>> THEN tr ELSE TransitionNone
    IN  IF m1.res = "Ok" THEN transition(m1, t) ELSE m1

\* tr is the Transition the top state's on_event returns.
handle_event(m, tr) ==
    IF ~m.running THEN m
    ELSE LET m1 == IF m.states # <<>> THEN Invoke(m, "on_event", Top(m.states)) ELSE m
             t  == IF m.states # <<>> THEN tr ELSE TransitionNone
         IN  IF m1.res = "Ok" THEN transition(m1, t) ELSE m1

\* update that dispatches to the bottom of the stack (first_mut).
update_bottom(m, tr) ==
    IF ~m.running THEN m
    ELSE LET m1 == IF m.states # <<>> THEN Invoke(m, "update", Head(m.states)) ELSE m
             t  == IF m.states # <<>> THEN tr ELSE TransitionNone
         IN  IF m1.res = "Ok" THEN transition(m1, t) ELSE m1

\* tr is the Transition the top state's update returns.
update(m, tr) ==
    IF ~m.running THEN m
    ELSE LET m1 == IF m.states # <<>> THEN Invoke(m, "update", Top(m.states)) ELSE m
             t  == IF m.states # <<>> THEN tr ELSE TransitionNone
         IN  IF m1.res = "Ok" THEN transition(m1, t) ELSE m1

----------------------------------------------------------------------------
\* The calls of the public methods

HookFailed(cs, h) == \E i \in 1..Len(cs) : cs[i].hook = h /\ ~cs[i].ok

\* The machine and the record of the call after a call that ended as m.
Finish(m, name, tr, ret) ==
    /\ states' = m.states
    /\ running' = m.running
    /\ op' = [name |-> name, tr |-> tr, ret |-> ret]
    /\ calls' = m.calls
    /\ result' = m.res
    /\ preStates' = states
    /\ preRunning' = running
    /\ started' = (started \/ (name = "start" /\ ~running /\ m.running))
    /\ stopFailed' = (stopFailed \/ HookFailed(m.calls, "on_stop"))
    /\ pauseFailed' = (pauseFailed \/ HookFailed(m.calls, "on_pause"))
    /\ LET counted == /\ onlyPushPop
                      /\ m.req \in {"none", "None", "Push", "Pop"}
                      /\ ~(name = "stop" /\ running)
                      /\ ~(m.req = "Push" /\ pushes = MaxCount)
                      /\ ~(m.req = "Pop" /\ pops = MaxCount)
       IN  /\ onlyPushPop' = counted
           /\ pushes' = IF ~counted THEN 0
                        ELSE IF m.req = "Push" THEN pushes + 1 ELSE pushes
           /\ pops' = IF ~counted THEN 0
                      ELSE IF m.req = "Pop" THEN pops + 1 ELSE pops
    /\ freshStarts' = IF freshStarts.on /\ name = "start" /\ Len(freshStarts.calls) < 2
                      THEN [freshStarts EXCEPT !.calls = Append(@, m.calls)]
                      ELSE [on |-> FALSE, calls |-> <<>>]
    /\ UNCHANGED rendererVars
    /\ UNCHANGED appVars

NoTransition == [kind |-> "none", state |-> 0]

InitMachine ==
    /\ states = <<InitialState>>
    /\ running = FALSE
    /\ op = [name |-> "new", tr |-> NoTransition, ret |-> 0]
    /\ calls = <<>>
    /\ result = "Ok"
    /\ preStates = <<>>
    /\ preRunning = FALSE
    /\ started = FALSE
    /\ stopFailed = FALSE
    /\ pauseFailed = FALSE
    /\ onlyPushPop = TRUE
    /\ pushes = 0
    /\ pops = 0
    /\ freshStarts = [on |-> TRUE, calls |-> <<>>]

\* WgpuRenderer::new_async: the surface is configured and the depth texture
\* created at the dimensions given, which are stored.
WgpuRenderer_new(dimensions) ==
    [dimensions |-> dimensions, config |-> dimensions,
     surface |-> dimensions, depth |-> dimensions]

NoRendererCall ==
    [name |-> "new", arg |-> <<0, 0>>, acquire |-> "none", steps |-> <<>>,
     ret |-> "Ok", pre |-> WgpuRenderer_new(<<1, 1>>)]

\* No iteration of the event loop has run yet.
NoIteration ==
    [event |-> "none", steps |-> <<>>, calls |-> <<>>, applied |-> <<>>,
     discarded |-> <<>>, res |-> "Ok", error |-> "none", preStates |-> <<>>, preRunning |-> FALSE]

InitOrchestrator ==
    /\ control_flow = "Poll"
    /\ iter = NoIteration

Init ==
    /\ InitMachine
    /\ renderer = WgpuRenderer_new(<<1, 1>>)
    /\ rcall = NoRendererCall
    /\ InitOrchestrator

Start ==
    \E fail \in FailChoices :
        Finish(start(Begin(states, running, fail)), "start", NoTransition, 0)

HandleEvent ==
    \E fail \in FailChoices, tr \in Transitions(states) :
        Finish(handle_event(Begin(states, running, fail), tr), "handle_event", tr, 0)

Update ==
    \E fail \in FailChoices, tr \in Transitions(states) :
        Finish(update(Begin(states, running, fail), tr), "update", tr, 0)

Transition ==
    \E fail \in FailChoices, tr \in Transitions(states) :
        Finish(transition(Begin(states, running, fail), tr), "transition", tr, 0)

Stop ==
    \E fail \in FailChoices :
        Finish(stop(Begin(states, running, fail)), "stop", NoTransition, 0)

CurrentState ==
    LET r == current_state(states)
        m == Begin(states, running, 0)
    IN  Finish([m EXCEPT !.res = IF r.ok THEN "Ok" ELSE r.error],
               "current_state", NoTransition, r.state)

IsRunning ==
    Finish(Begin(states, running, 0), "is_running", NoTransition,
           IF is_running(running) THEN 1 ELSE 0)

Next ==
    \/ Start
    \/ HandleEvent
    \/ Update
    \/ Transition
    \/ Stop
    \/ CurrentState
    \/ IsRunning

Spec == Init /\ [][Next]_vars

TypeOK ==
    /\ states \in Seq(StateIds)
    /\ running \in BOOLEAN
    /\ result \in {"Ok", "HookError", "EmptyStack"}
    /\ pushes \in 0..MaxCount
    /\ pops \in 0..MaxCount

----------------------------------------------------------------------------
\* Vocabulary of the properties: the last call, read from op / calls / pre*.

Call(h, s, ok) == [hook |-> h, state |-> s, ok |-> ok]

Invoked(h, s) == \E i \in 1..Len(calls) : calls[i].hook = h /\ calls[i].state = s

\* h1 on s1 was invoked, and later in the same call h2 on s2.
Before(h1, s1, h2, s2) ==
    \E i, j \in 1..Len(calls) :
        /\ i < j
        /\ calls[i].hook = h1 /\ calls[i].state = s1
        /\ calls[j].hook = h2 /\ calls[j].state = s2

Dispatching == op.name \in {"update", "handle_event"}

\* The last call applied a transition of this kind to a running machine:
\* transition(request) itself, or update / handle_event whose hook returned it.
Applied(kind) ==
    /\ preRunning
    /\ op.tr.kind = kind
    /\ \/ op.name = "transition"
       \/ Dispatching /\ preStates # <<>> /\ calls[1].ok

\* The lifecycle hooks of the last call: calls without the dispatched hook.
Lifecycle == IF Dispatching /\ calls # <<>> THEN Tail(calls) ELSE calls

AllOk(cs) == \A i \in 1..Len(cs) : cs[i].ok

----------------------------------------------------------------------------
\* C1 (Push ordering): a Push(B) applied to a running machine with top A
\* invokes A.on_pause first and never A.on_stop; when A.on_pause returns Ok,
\* B.on_start is the one hook that follows and afterwards the stack is the
\* old stack with B on top (A directly beneath, everything beneath unchanged)
\* and the machine still runs.  (A.on_pause returning an error aborts the
\* push; that outcome is the subject of C25.)
C1_PushOrdering ==
    Applied("Push") /\ preStates # <<>> =>
        LET A == Top(preStates)
            B == op.tr.state
        IN  /\ ~Invoked("on_stop", A)
            /\ Lifecycle # <<>>
            /\ Lifecycle[1].hook = "on_pause" /\ Lifecycle[1].state = A
            /\ Invoked("on_start", B) => Before("on_pause", A, "on_start", B)
            /\ Lifecycle[1].ok =>
                   /\ Len(Lifecycle) = 2
                   /\ Lifecycle[2].hook = "on_start" /\ Lifecycle[2].state = B
                   /\ states = Append(preStates, B)
                   /\ running

\* A Push over a stack of two states went through: B is on top of A.
C1_Witness ==
    /\ Applied("Push")
    /\ Len(preStates) = 2
    /\ result = "Ok"
    /\ Before("on_pause", Top(preStates), "on_start", op.tr.state)
    /\ states = Append(preStates, op.tr.state)

\* C2 (Pop ordering): a Pop applied to a running machine with B on top
\* removes B and invokes B.on_stop first; when B.on_stop returns Ok and a
\* state A remains, A.on_resume is the one hook that follows, A is the top
\* and the machine still runs; when B.on_stop returns Ok and no state
\* remains, no on_resume is invoked and running is false.  (B.on_stop
\* returning an error aborts the pop; that outcome is the subject of C26.)
C2_PopOrdering ==
    Applied("Pop") /\ preStates # <<>> =>
        LET B == Top(preStates)
        IN  /\ states = Front(preStates)
            /\ Lifecycle # <<>>
            /\ Lifecycle[1].hook = "on_stop" /\ Lifecycle[1].state = B
            /\ \A i \in 1..Len(calls) : calls[i].hook = "on_resume" =>
                   Before("on_stop", B, "on_resume", calls[i].state)
            /\ Lifecycle[1].ok /\ Len(preStates) > 1 =>
                   /\ Len(Lifecycle) = 2
                   /\ Lifecycle[2].hook = "on_resume"
                   /\ Lifecycle[2].state = preStates[Len(preStates) - 1]
                   /\ Top(states) = preStates[Len(preStates) - 1]
                   /\ running
            /\ Lifecycle[1].ok /\ Len(preStates) = 1 =>
                   /\ Len(Lifecycle) = 1
                   /\ states = <<>>
                   /\ ~running

\* A Pop of B over A went through: B stopped, then A resumed and on top.
C2_Witness ==
    /\ Applied("Pop")
    /\ Len(preStates) = 2
    /\ result = "Ok"
    /\ Before("on_stop", preStates[2], "on_resume", preStates[1])
    /\ states = <<preStates[1]>>
    /\ running

\* C3 (Switch ordering): a Switch(C) applied to a running machine with top A
\* removes A and invokes A.on_stop first, never A.on_pause or A.on_resume and
\* no hook of a state beneath A; when A.on_stop returns Ok, C.on_start is the
\* one hook that follows and the stack has its old depth with C in A's slot
\* over the unchanged states beneath.  (A.on_stop returning an error aborts
\* the switch; that outcome is the subject of C26.)
C3_SwitchOrdering ==
    Applied("Switch") /\ preStates # <<>> =>
        LET A == Top(preStates)
            C == op.tr.state
        IN  /\ Lifecycle # <<>>
            /\ Lifecycle[1].hook = "on_stop" /\ Lifecycle[1].state = A
            /\ ~Invoked("on_pause", A) /\ ~Invoked("on_resume", A)
            /\ \A i \in 1..Len(Lifecycle), k \in 1..(Len(preStates) - 1) :
                   Lifecycle[i].state # preStates[k]
            /\ Invoked("on_start", C) => Before("on_stop", A, "on_start", C)
            /\ Lifecycle[1].ok =>
                   /\ Len(Lifecycle) = 2
                   /\ Lifecycle[2].hook = "on_start" /\ Lifecycle[2].state = C
                   /\ states = Append(Front(preStates), C)
                   /\ Len(states) = Len(preStates)
                   /\ running

\* A Switch over a stack of two states went through: C replaced the top.
C3_Witness ==
    /\ Applied("Switch")
    /\ Len(preStates) = 2
    /\ result = "Ok"
    /\ Before("on_stop", preStates[2], "on_start", op.tr.state)
    /\ states = <<preStates[1], op.tr.state>>

\* The last call drained a running machine: Transition::Quit, or stop().
Quitting == Applied("Quit") \/ (op.name = "stop" /\ preRunning)

\* C4 (Quit drains top-down): Quit on a running machine invokes only on_stop
\* hooks, on the states of the stack from the top down, each state at most
\* once, and no on_pause or on_resume; when every on_stop returns Ok every
\* state is stopped exactly once, the stack is empty and running is false.
\* (An on_stop error ends the drain; that outcome is the subject of C26.)
C4_QuitDrainsTopDown ==
    Quitting =>
        LET n == Len(preStates)
            L == Lifecycle
        IN  /\ Len(L) <= n
            /\ \A i \in 1..Len(L) :
                   /\ L[i].hook = "on_stop"
                   /\ L[i].state = preStates[n - i + 1]
                   /\ i < Len(L) => L[i].ok
            /\ AllOk(L) => Len(L) = n /\ states = <<>> /\ ~running /\ result = "Ok"

\* Quit drained a stack of three states, top first.
C4_Witness ==
    /\ Applied("Quit")
    /\ Len(preStates) = 3
    /\ Lifecycle = <<Call("on_stop", preStates[3], TRUE),
                     Call("on_stop", preStates[2], TRUE),
                     Call("on_stop", preStates[1], TRUE)>>
    /\ states = <<>>
    /\ ~running

\* C5 (stack size): on a started machine to which only Push and Pop (and
\* None) transitions have been applied, k pushes and j pops with j <= k,
\* every push's on_pause having returned Ok, the stack holds 1 + k - j states
\* and the machine runs; it has stopped running only when the pops outnumber
\* the pushes, the initial state itself having been popped, and then the
\* stack is empty.
C5_StackSize ==
    started /\ onlyPushPop /\ ~pauseFailed =>
        /\ pops <= pushes => Len(states) = 1 + pushes - pops /\ running
        /\ ~running => pops > pushes /\ states = <<>>

\* Two pushes and one pop later the stack holds two states.
C5_Witness ==
    /\ started /\ onlyPushPop /\ ~pauseFailed
    /\ pushes = 2 /\ pops = 1
    /\ Len(states) = 2
    /\ running

\* C6 (idempotent start): of two start() calls made first and in a row on a
\* new machine, the first invokes on_start on the initial state once and, when
\* that returns Ok, the second invokes nothing; and any start() on a running
\* machine invokes no hook, changes neither the stack nor the running flag and
\* returns Ok.
C6_IdempotentStart ==
    /\ freshStarts.on /\ Len(freshStarts.calls) = 2 =>
           /\ Len(freshStarts.calls[1]) = 1
           /\ freshStarts.calls[1][1].hook = "on_start"
           /\ freshStarts.calls[1][1].state = InitialState
           /\ freshStarts.calls[1][1].ok => freshStarts.calls[2] = <<>>
    /\ op.name = "start" /\ preRunning =>
           /\ calls = <<>>
           /\ states = preStates
           /\ running
           /\ result = "Ok"

\* start() was called twice on the new machine; on_start ran once, returning Ok.
C6_Witness ==
    /\ freshStarts.on
    /\ freshStarts.calls = <<(<<Call("on_start", InitialState, TRUE)>>), <<>>>>
    /\ op.name = "start" /\ preRunning
    /\ running

DispatchHooks == {"update", "on_event"}

\* C7 (dispatch to the top only): an update / handle_event call on a running
\* machine invokes update / on_event once, first, on the state on top of the
\* stack at the call, and on no other state (on none when the stack is
\* empty); so the update following an update whose Push(B) went through
\* dispatches to B and not to the state beneath, and the update following a
\* Pop dispatches to the state that was beneath the popped one.
C7_DispatchToTop ==
    [][/\ op'.name \in {"update", "handle_event"} /\ running =>
              LET D == {i \in 1..Len(calls') : calls'[i].hook \in DispatchHooks}
              IN  IF states = <<>> THEN D = {}
                  ELSE /\ D = {1}
                       /\ calls'[1].hook =
                              (IF op'.name = "update" THEN "update" ELSE "on_event")
                       /\ calls'[1].state = Top(states)
       /\ /\ op.name = "update" /\ Applied("Push") /\ preStates # <<>>
          /\ Lifecycle[1].ok /\ op'.name = "update"
          => calls'[1].state = op.tr.state /\ calls'[1].state # Top(preStates)
       /\ Applied("Pop") /\ Len(preStates) > 1 /\ op'.name = "update"
          => calls'[1].state = preStates[Len(preStates) - 1]
      ]_vars

\* An update was dispatched to the top of a stack of two states.
C7_Witness ==
    /\ op.name = "update"
    /\ preRunning
    /\ Len(preStates) = 2
    /\ calls # <<>>
    /\ calls[1] = Call("update", preStates[2], TRUE)
    /\ \A i \in 2..Len(calls) : calls[i].hook \notin DispatchHooks

\* C8 (no-ops while not running): handle_event, update and transition called
\* while running is false, with any of the five variants, invoke no hook,
\* leave the stack and the running flag as they were and return Ok.
C8_NotRunningNoOp ==
    op.name \in {"handle_event", "update", "transition"} /\ ~preRunning =>
        /\ calls = <<>>
        /\ states = preStates
        /\ ~running
        /\ result = "Ok"

\* handle_event whose on_event would return a Push, on a machine not started.
C8_Witness ==
    /\ op.name = "handle_event"
    /\ op.tr.kind = "Push"
    /\ ~preRunning
    /\ preStates = <<InitialState>>
    /\ states = preStates

\* C9 as stated (data invariant): states is never empty, and running is false
\* exactly when start() has not yet succeeded or the stack has been drained.
C9_DataInvariant ==
    /\ states # <<>>
    /\ ~running <=> (~started \/ states = <<>>)

\* C9 amended: until start() succeeds the stack is exactly the initial state
\* and running is false; afterwards running is false only with the stack
\* empty (Quit and the final Pop leave states empty); running is true with an
\* empty stack only after an on_stop hook has returned an error.
C9_DataInvariantAmended ==
    /\ ~started => states = <<InitialState>> /\ ~running
    /\ started /\ ~running => states = <<>>
    /\ running => started
    /\ running /\ states = <<>> => stopFailed
    /\ ~stopFailed => (~running <=> (~started \/ states = <<>>))

\* The machine was started and then drained with every on_stop returning Ok.
C9_Witness ==
    /\ started
    /\ ~stopFailed
    /\ Quitting
    /\ Len(preStates) = 2
    /\ states = <<>>
    /\ ~running

\* C10 (current_state): current_state returns the top of the stack when the
\* stack is non-empty, fails with the empty-stack error exactly when it is
\* empty, and changes neither the stack nor the running flag.
C10_CurrentState ==
    op.name = "current_state" =>
        /\ preStates # <<>> => result = "Ok" /\ op.ret = Top(preStates)
        /\ result = "EmptyStack" <=> preStates = <<>>
        /\ result \in {"Ok", "EmptyStack"}
        /\ states = preStates
        /\ running = preRunning

\* current_state returned the top of a stack of two states.
C10_Witness ==
    /\ op.name = "current_state"
    /\ Len(preStates) = 2
    /\ result = "Ok"
    /\ op.ret = preStates[2]

\* current_state failed on the stack a Quit left empty.
C10_WitnessEmpty ==
    /\ op.name = "current_state"
    /\ preStates = <<>>
    /\ result = "EmptyStack"

----------------------------------------------------------------------------
\* WgpuRenderer (wgpu.rs)

Dims == 0..MaxDim

\* What surface.get_current_texture can return: a texture, or a SurfaceError.
AcquireOutcomes == {"Ok", "Lost", "Outdated", "Timeout", "OutOfMemory"}

\* A call in progress on the renderer r.
BeginRender(r) ==
    [r |-> r, steps |-> <<>>, err |-> "none", panic |-> FALSE, ret |-> "Ok"]

Step(c, name, arg) == [c EXCEPT !.steps = Append(@, [step |-> name, arg |-> arg])]

\* resize whose guard is && : only a request of 0 x 0 is ignored.
resize_both_zero(c, dimensions) ==
    IF dimensions[1] = 0 /\ dimensions[2] = 0 THEN c
    ELSE LET c1 == [c EXCEPT !.r.dimensions = dimensions]
             c2 == [c1 EXCEPT !.r.config = dimensions]
             c3 == Step([c2 EXCEPT !.r.surface = c2.r.config], "configure", c2.r.config)
         IN  Step([c3 EXCEPT !.r.depth = dimensions], "create_depth_texture", dimensions)

\* resize that reconfigures the surface and keeps the old depth texture.
resize_keep_depth(c, dimensions) ==
    IF dimensions[1] = 0 \/ dimensions[2] = 0 THEN c
    ELSE LET c1 == [c EXCEPT !.r.dimensions = dimensions]
             c2 == [c1 EXCEPT !.r.config = dimensions]
         IN  Step([c2 EXCEPT !.r.surface = c2.r.config], "configure", c2.r.config)

resize(c, dimensions) ==
    IF dimensions[1] = 0 \/ dimensions[2] = 0 THEN c
    ELSE LET c1 == [c EXCEPT !.r.dimensions = dimensions]
             c2 == [c1 EXCEPT !.r.config = dimensions]
             c3 == Step([c2 EXCEPT !.r.surface = c2.r.config], "configure", c2.r.config)
         IN  Step([c3 EXCEPT !.r.depth = dimensions], "create_depth_texture", dimensions)

\* render_frame that records the gui overlay ahead of the scene pass and
\* presents ahead of the submit.
render_frame_gui_first(c, acquire, guiExecuteOk) ==
    LET c1 == Step(c, "get_current_texture", c.r.surface)
    IN  IF acquire # "Ok" THEN [c1 EXCEPT !.err = acquire]
        ELSE LET c2 == Step(c1, "create_view", c.r.surface)
                 c3 == Step(c2, "gui_update_texture", c.r.config)
                 c4 == Step(c3, "gui_update_user_textures", c.r.config)
                 c5 == Step(c4, "gui_update_buffers", c.r.config)
                 c6 == Step(c5, "create_command_encoder", c.r.config)
                 c7 == Step(c6, "gui_execute", c.r.config)
                 c8 == Step(c7, "scene_render_pass", c.r.config)
             IN  IF ~guiExecuteOk THEN [c8 EXCEPT !.panic = TRUE]
                 ELSE Step(Step(c8, "present", c.r.surface), "submit", c.r.config)

\* render_frame: `?` on the acquisition returns its error before anything is
\* recorded; the gui render pass is executed under expect.
render_frame(c, acquire, guiExecuteOk) ==
    LET c1 == Step(c, "get_current_texture", c.r.surface)
    IN  IF acquire # "Ok" THEN [c1 EXCEPT !.err = acquire]
        ELSE LET c2 == Step(c1, "create_view", c.r.surface)
                 c3 == Step(c2, "gui_update_texture", c.r.config)
                 c4 == Step(c3, "gui_update_user_textures", c.r.config)
                 c5 == Step(c4, "gui_update_buffers", c.r.config)
                 c6 == Step(c5, "create_command_encoder", c.r.config)
                 c7 == Step(c6, "scene_render_pass", c.r.config)
                 c8 == Step(c7, "gui_execute", c.r.config)
             IN  IF ~guiExecuteOk THEN [c8 EXCEPT !.panic = TRUE]
                 ELSE Step(Step(c8, "submit", c.r.config), "present", c.r.surface)

\* render that logs Lost like every other error.
render_lost_logged(c, acquire, guiExecuteOk) ==
    LET f == render_frame(c, acquire, guiExecuteOk)
    IN  IF f.panic THEN f
        ELSE IF f.err = "none" THEN [f EXCEPT !.ret = "Ok"]
        ELSE [Step(f, "log_error", f.r.config) EXCEPT !.ret = "Ok"]

\* render that recovers from every error the way it does from Lost.
render_recover_all(c, acquire, guiExecuteOk) ==
    LET f == render_frame(c, acquire, guiExecuteOk)
    IN  IF f.panic THEN f
        ELSE IF f.err = "none" THEN [f EXCEPT !.ret = "Ok"]
        ELSE [resize(f, f.r.dimensions) EXCEPT !.ret = "Ok"]

\* render that hands OutOfMemory to its caller.
render_propagate_oom(c, acquire, guiExecuteOk) ==
    LET f == render_frame(c, acquire, guiExecuteOk)
    IN  IF f.panic THEN f
        ELSE IF f.err = "none" THEN [f EXCEPT !.ret = "Ok"]
        ELSE IF f.err = "Lost" THEN [resize(f, f.r.dimensions) EXCEPT !.ret = "Ok"]
        ELSE IF f.err = "OutOfMemory" THEN [f EXCEPT !.ret = "Err"]
        ELSE [Step(f, "log_error", f.r.config) EXCEPT !.ret = "Ok"]

\* render: Lost re-runs resize at the stored dimensions, any other error is
\* logged; Ok(()) is returned in every case.
render(c, acquire, guiExecuteOk) ==
    LET f == render_frame(c, acquire, guiExecuteOk)
    IN  IF f.panic THEN f
        ELSE IF f.err = "none" THEN [f EXCEPT !.ret = "Ok"]
        ELSE IF f.err = "Lost" THEN [resize(f, f.r.dimensions) EXCEPT !.ret = "Ok"]
        ELSE [Step(f, "log_error", f.r.config) EXCEPT !.ret = "Ok"]

\* The renderer and the record of the call after a call that ended as c.
FinishRender(c, name, arg, acquire) ==
    /\ renderer' = c.r
    /\ rcall' = [name |-> name, arg |-> arg, acquire |-> acquire, steps |-> c.steps,
                 ret |-> IF c.panic THEN "Panic" ELSE c.ret, pre |-> renderer]
    /\ UNCHANGED machineVars
    /\ UNCHANGED appVars

\* The window has a size the surface can be configured at: both positive.
InitRender ==
    /\ InitMachine
    /\ \E w, h \in Dims \ {0} : renderer = WgpuRenderer_new(<<w, h>>)
    /\ rcall = NoRendererCall
    /\ InitOrchestrator

\* No call follows one that panicked: the process is gone.
Resize ==
    \E w, h \in Dims :
        /\ rcall.ret # "Panic"
        /\ FinishRender(resize(BeginRender(renderer), <<w, h>>),
                        "resize", <<w, h>>, "none")

Render ==
    \E acquire \in AcquireOutcomes, guiExecuteOk \in BOOLEAN :
        /\ rcall.ret # "Panic"
        /\ FinishRender(render(BeginRender(renderer), acquire, guiExecuteOk),
                        "render", <<0, 0>>, acquire)

NextRender ==
    \/ Resize
    \/ Render

SpecRender == InitRender /\ [][NextRender]_vars

----------------------------------------------------------------------------
\* Vocabulary of the renderer properties: the steps of the last call.

StepsNamed(name) == {i \in 1..Len(rcall.steps) : rcall.steps[i].step = name}

ZeroSized(dimensions) == dimensions[1] = 0 \/ dimensions[2] = 0

\* C11 (resize no-op): a resize whose width or height is 0 leaves the stored
\* dimensions, the configuration's width and height, the configured surface
\* and the depth buffer as they were, and neither configures the surface nor
\* creates a depth texture.
C11_ResizeNoOp ==
    rcall.name = "resize" /\ ZeroSized(rcall.arg) =>
        /\ renderer = rcall.pre
        /\ StepsNamed("configure") = {}
        /\ StepsNamed("create_depth_texture") = {}

\* resize to 0 x 3 on a renderer that an earlier resize had set to 2 x 3.
C11_Witness ==
    /\ rcall.name = "resize"
    /\ rcall.arg = <<0, 3>>
    /\ rcall.pre.dimensions = <<2, 3>>
    /\ renderer.dimensions = <<2, 3>>

\* C12 (depth buffer / surface consistency): after construction and after
\* every resize and render call the depth buffer has the size the surface is
\* configured at, which is the configuration's width and height and the
\* stored dimensions.
C12_DepthMatchesSurface ==
    /\ renderer.depth = renderer.surface
    /\ renderer.surface = renderer.config
    /\ renderer.config = renderer.dimensions

\* A resize changed the size: the depth buffer followed the surface.
C12_Witness ==
    /\ rcall.name = "resize"
    /\ rcall.arg = <<2, 3>>
    /\ rcall.pre.depth = <<1, 1>>
    /\ renderer.depth = <<2, 3>>
    /\ renderer.surface = <<2, 3>>

\* C13 (surface-lost recovery): a render call whose acquisition yields Lost
\* configures the surface exactly once, at the dimensions stored before the
\* call, and returns Ok.
C13_LostRecovery ==
    rcall.name = "render" /\ rcall.acquire = "Lost" =>
        /\ Cardinality(StepsNamed("configure")) = 1
        /\ \A i \in StepsNamed("configure") : rcall.steps[i].arg = rcall.pre.dimensions
        /\ renderer.dimensions = rcall.pre.dimensions
        /\ renderer.surface = rcall.pre.dimensions
        /\ rcall.ret = "Ok"

\* Lost on a renderer resized to 3 x 2: one configure at 3 x 2.
C13_Witness ==
    /\ rcall.name = "render"
    /\ rcall.acquire = "Lost"
    /\ rcall.pre.dimensions = <<3, 2>>
    /\ \E i \in 1..Len(rcall.steps) :
           rcall.steps[i] = [step |-> "configure", arg |-> <<3, 2>>]
    /\ rcall.ret = "Ok"

\* C14 as stated: a render call whose acquisition yields Outdated or Timeout
\* reconfigures the surface at the stored dimensions and returns Ok.
C14_OutdatedTimeoutLikeLost ==
    rcall.name = "render" /\ rcall.acquire \in {"Outdated", "Timeout"} =>
        /\ Cardinality(StepsNamed("configure")) = 1
        /\ \A i \in StepsNamed("configure") : rcall.steps[i].arg = rcall.pre.dimensions
        /\ rcall.ret = "Ok"

\* C14 amended: a render call whose acquisition yields Outdated or Timeout
\* logs the error and returns Ok; it does not configure the surface nor
\* create a depth texture, submits and presents nothing and leaves the
\* renderer as it was (the next frame acquires again).
C14_OutdatedTimeoutLogged ==
    rcall.name = "render" /\ rcall.acquire \in {"Outdated", "Timeout"} =>
        /\ StepsNamed("configure") = {}
        /\ StepsNamed("create_depth_texture") = {}
        /\ StepsNamed("log_error") # {}
        /\ StepsNamed("submit") = {} /\ StepsNamed("present") = {}
        /\ renderer = rcall.pre
        /\ rcall.ret = "Ok"

\* Timeout: the acquisition, then the log entry, nothing else.
C14_Witness ==
    /\ rcall.name = "render"
    /\ rcall.acquire = "Timeout"
    /\ Len(rcall.steps) = 2
    /\ rcall.steps[1].step = "get_current_texture"
    /\ rcall.steps[2].step = "log_error"
    /\ rcall.ret = "Ok"

\* C20 (render propagates no surface error): a render call never returns an
\* error, whatever the acquisition yields; when the acquisition fails (Lost,
\* Outdated, Timeout, OutOfMemory) the call returns Ok having submitted
\* nothing to the queue and presented nothing; when it succeeds and the call
\* returns, it returns Ok after one submit and one present.  (The one way a
\* call does not return is the expect on the gui render pass, which is
\* reached only after a successful acquisition.)
C20_RenderNeverPropagates ==
    rcall.name = "render" =>
        /\ rcall.ret \in {"Ok", "Panic"}
        /\ rcall.acquire # "Ok" =>
               /\ rcall.ret = "Ok"
               /\ StepsNamed("submit") = {}
               /\ StepsNamed("present") = {}
               /\ StepsNamed("gui_execute") = {}
               /\ rcall.steps[1].step = "get_current_texture"
        /\ rcall.acquire = "Ok" /\ rcall.ret = "Ok" =>
               /\ Cardinality(StepsNamed("submit")) = 1
               /\ Cardinality(StepsNamed("present")) = 1

\* OutOfMemory: render returned Ok with nothing submitted or presented.
C20_Witness ==
    /\ rcall.name = "render"
    /\ rcall.acquire = "OutOfMemory"
    /\ rcall.ret = "Ok"
    /\ StepsNamed("submit") = {}
    /\ StepsNamed("present") = {}

----------------------------------------------------------------------------
\* run / run_loop (app.rs)

\* The events the closure is called with, as far as run_loop tells them
\* apart.  The window events are those of the application's window; KeyOther
\* is any keyboard input but a pressed Escape; Other is any event the match
\* leaves to its `_` arms, the events of another window among them.
Events ==
    {"MainEventsCleared", "CloseRequested", "KeyEscapePressed", "KeyOther",
     "MouseInput", "DroppedFile", "Resized", "ScaleFactorChanged", "Other"}

TransitionKinds == {"None", "Pop", "Quit", "Push", "Switch"}

\* The states the stack of the application is made of.
NumAppStateIds == 2

AppStateIds == 1..NumAppStateIds

\* The Transition of kind k a hook returns to a machine whose stack is st: the
\* state it carries is a newly allocated one, so it is not on the stack.  The
\* stack is kept within AppStateIds: a hook returns no Push and no Switch
\* when every id is on the stack.
MakeTransition(k, st) ==
    LET free == AppStateIds \ {st[i] : i \in 1..Len(st)}
        s == CHOOSE x \in free : \A y \in free : x <= y
    IN  CASE k = "None" -> TransitionNone
          [] k = "Pop" -> TransitionPop
          [] k = "Quit" -> TransitionQuit
          [] k = "Push" -> IF free = {} THEN TransitionNone ELSE TransitionPush(s)
          [] k = "Switch" -> IF free = {} THEN TransitionNone ELSE TransitionSwitch(s)

\* StateMachine::update_gui, called at app.rs:121: the top state's update_gui
\* hook, whose Transition is applied as update applies its own.
update_gui(m, tr) ==
    IF ~m.running THEN m
    ELSE LET m1 == IF m.states # <<>> THEN Invoke(m, "update_gui", Top(m.states)) ELSE m
             t  == IF m.states # <<>> THEN tr ELSE TransitionNone
         IN  IF m1.res = "Ok" THEN transition(m1, t) ELSE m1

\* An iteration in progress: the machine call record (whose calls and fail
\* countdown run through the whole iteration), the renderer, the control
\* flow, the steps taken so far, the Transitions that reached
\* StateMachine::transition while running, the Transitions run_loop received
\* and dropped, and what run_loop returns so far.
BeginLoop(st, run, fail, r, cf) ==
    [m |-> Begin(st, run, fail), r |-> r, cf |-> cf, steps |-> <<>>,
     applied |-> <<>>, discarded |-> <<>>, res |-> "Ok", error |-> "none"]

\* A step of run_loop, stamped with the number of hooks invoked before it.
AppStep(it, name) ==
    [it EXCEPT !.steps = Append(@, [step |-> name, at |-> Len(it.m.calls)])]

\* The machine as a StateMachine method finds it, and the iteration after the
\* method has left the machine as m.
Entering(it) == [it.m EXCEPT !.req = "none"]

MachineCall(it, name, m) ==
    [AppStep(it, name) EXCEPT
        !.m = m,
        !.applied = IF m.req = "none" THEN @
                    ELSE Append(@, [call |-> name, kind |-> m.req])]

\* `?` on the result of a machine call: run_loop returns the error.
Try(it) ==
    IF it.m.res = "Ok" THEN it ELSE [it EXCEPT !.res = "Err", !.error = it.m.res]

\* expect on the result of a machine call: the error panics.
Expect(it) ==
    IF it.m.res = "Ok" THEN it ELSE [it EXCEPT !.res = "Panic", !.error = it.m.res]

\* The Transition tr a hook h returned to run_loop, with the machine as it
\* was when h was called and as it is after the statement that called it.
Discard(it, h, tr, before) ==
    [it EXCEPT !.discarded =
        Append(@, [hook |-> h, kind |-> tr,
                   before |-> <<before.states, before.running>>,
                   after |-> <<it.m.states, it.m.running>>])]

\* A dispatch that hands the Transition returned to StateMachine::transition.
dispatch_applying(it, h, tr) ==
    LET i1 == AppStep(it, h)
        cur == current_state(it.m.states)
        m1 == Invoke(it.m, h, cur.state)
        m2 == IF m1.res = "Ok"
              THEN transition([m1 EXCEPT !.req = "none"], MakeTransition(tr, m1.states))
              ELSE m1
    IN  IF ~cur.ok THEN [i1 EXCEPT !.res = "Err", !.error = cur.error]
        ELSE IF m1.res # "Ok" THEN Try([i1 EXCEPT !.m = m1])
        ELSE Try(Discard([i1 EXCEPT !.m = m2], h, tr, it.m))

\* state_machine.current_state()?.h(..)? : the Transition tr that h returns
\* is dropped.
dispatch(it, h, tr) ==
    LET i1 == AppStep(it, h)
        cur == current_state(it.m.states)
        m1 == Invoke(it.m, h, cur.state)
    IN  IF ~cur.ok THEN [i1 EXCEPT !.res = "Err", !.error = cur.error]
        ELSE IF m1.res # "Ok" THEN Try([i1 EXCEPT !.m = m1])
        ELSE Discard([i1 EXCEPT !.m = m1], h, tr, it.m)

\* app.rs:97-99
lazy_start(it) ==
    IF is_running(it.m.running) THEN it
    ELSE Try(MachineCall(it, "start", start(Entering(it))))

\* The forwarding with `?` in the place of expect.
forward_event_try(it, trEvent) ==
    LET i1 == AppStep(it, "gui.handle_event")
    IN  Try(MachineCall(i1, "handle_event",
                        handle_event(Entering(it), MakeTransition(trEvent, it.m.states))))

\* app.rs:101-105
forward_event(it, trEvent) ==
    LET i1 == AppStep(it, "gui.handle_event")
    IN  Expect(MachineCall(i1, "handle_event",
                           handle_event(Entering(it), MakeTransition(trEvent, it.m.states))))

\* app.rs:107-111
poll_gamepad(it, gamepad, trGamepad) ==
    IF gamepad THEN dispatch(it, "on_gamepad_event", trGamepad) ELSE it

\* The frame with the render ahead of the gui frame build.
frame_render_first(it, trUpdate, trGui, acquire, guiExecuteOk) ==
    LET i1 == Try(MachineCall(it, "update",
                              update(Entering(it), MakeTransition(trUpdate, it.m.states))))
        c  == render(BeginRender(i1.r), acquire, guiExecuteOk)
        i2 == [AppStep(i1, "render") EXCEPT !.r = c.r]
        i3 == AppStep(i2, "start_frame")
        i4 == Try(MachineCall(i3, "update_gui",
                              update_gui(Entering(i3), MakeTransition(trGui, i3.m.states))))
    IN  IF i1.res # "Ok" THEN i1
        ELSE IF c.panic THEN [i2 EXCEPT !.res = "Panic", !.error = "GuiRenderPass"]
        ELSE IF c.ret # "Ok" THEN [i2 EXCEPT !.res = "Err", !.error = "SurfaceError"]
        ELSE IF i4.res # "Ok" THEN i4
        ELSE AppStep(i4, "end_frame")

\* app.rs:114-128
frame(it, trUpdate, trGui, acquire, guiExecuteOk) ==
    LET i1 == Try(MachineCall(it, "update",
                              update(Entering(it), MakeTransition(trUpdate, it.m.states))))
        i2 == AppStep(i1, "start_frame")
        i3 == Try(MachineCall(i2, "update_gui",
                              update_gui(Entering(i2), MakeTransition(trGui, i2.m.states))))
        i4 == AppStep(i3, "end_frame")
        c  == render(BeginRender(i4.r), acquire, guiExecuteOk)
        i5 == [AppStep(i4, "render") EXCEPT !.r = c.r]
    IN  IF i1.res # "Ok" THEN i1
        ELSE IF i3.res # "Ok" THEN i3
        ELSE IF c.panic THEN [i5 EXCEPT !.res = "Panic", !.error = "GuiRenderPass"]
        ELSE IF c.ret # "Ok" THEN [i5 EXCEPT !.res = "Err", !.error = "SurfaceError"]
        ELSE i5

\* app.rs:134 and app.rs:140
exit(it) == [AppStep(it, "exit") EXCEPT !.cf = "Exit"]

\* app.rs:158-169
resize_renderer(it, dimensions) ==
    [AppStep(it, "resize") EXCEPT !.r = resize(BeginRender(it.r), dimensions).r]

\* The match with the key hook ahead of the Escape shortcut.
match_event_key_first(it, event, trUpdate, trGui, trHook, acquire, guiExecuteOk, dimensions) ==
    CASE event = "MainEventsCleared" -> frame(it, trUpdate, trGui, acquire, guiExecuteOk)
      [] event = "CloseRequested" -> exit(it)
      [] event = "KeyEscapePressed" ->
            LET d == dispatch(it, "on_key", trHook) IN IF d.res = "Ok" THEN exit(d) ELSE d
      [] event = "KeyOther" -> dispatch(it, "on_key", trHook)
      [] event = "MouseInput" -> dispatch(it, "on_mouse", trHook)
      [] event = "DroppedFile" -> dispatch(it, "on_file_dropped", trHook)
      [] event \in {"Resized", "ScaleFactorChanged"} -> resize_renderer(it, dimensions)
      [] OTHER -> it

\* app.rs:113-174
match_event(it, event, trUpdate, trGui, trHook, acquire, guiExecuteOk, dimensions) ==
    CASE event = "MainEventsCleared" -> frame(it, trUpdate, trGui, acquire, guiExecuteOk)
      [] event = "CloseRequested" -> exit(it)
      [] event = "KeyEscapePressed" -> dispatch(exit(it), "on_key", trHook)
      [] event = "KeyOther" -> dispatch(it, "on_key", trHook)
      [] event = "MouseInput" -> dispatch(it, "on_mouse", trHook)
      [] event = "DroppedFile" -> dispatch(it, "on_file_dropped", trHook)
      [] event \in {"Resized", "ScaleFactorChanged"} -> resize_renderer(it, dimensions)
      [] OTHER -> it

\* run_loop (app.rs:91-176).  t holds the Transitions the hooks return: t[1]
\* on_event, t[2] update, t[3] update_gui, t[4] on_gamepad_event, t[5] the
\* hook of the event (on_key, on_mouse, on_file_dropped).
run_loop(it, event, gamepad, t, acquire, guiExecuteOk, dimensions) ==
    LET i1 == lazy_start(it)
        i2 == IF i1.res # "Ok" THEN i1 ELSE forward_event(i1, t[1])
        i3 == IF i2.res # "Ok" THEN i2 ELSE poll_gamepad(i2, gamepad, t[4])
    IN  IF i3.res # "Ok" THEN i3
        ELSE match_event(i3, event, t[2], t[3], t[5], acquire, guiExecuteOk, dimensions)

\* The closure of run (app.rs:76-88): an error of run_loop is logged and the
\* event loop goes on; a panic ends the process; Exit ends the event loop.
FinishLoop(it, event) ==
    /\ states' = it.m.states
    /\ running' = it.m.running
    /\ renderer' = it.r
    /\ control_flow' = it.cf
    /\ iter' = [event |-> event, steps |-> it.steps, calls |-> it.m.calls,
                applied |-> it.applied, discarded |-> it.discarded, res |-> it.res, error |-> it.error,
                preStates |-> states, preRunning |-> running]
    /\ UNCHANGED <<op, calls, result, preStates, preRunning, started, stopFailed,
                   pauseFailed, onlyPushPop, pushes, pops, freshStarts, rcall>>

Terminated == iter.res = "Panic"

InitApp ==
    /\ InitMachine
    /\ renderer = WgpuRenderer_new(<<1, 1>>)
    /\ rcall = NoRendererCall
    /\ InitOrchestrator

\* The inputs of one call of the closure.  Those the event makes irrelevant
\* are drawn once: the Transitions of update and update_gui and the outcome
\* of the frame only for MainEventsCleared, a size only for the two resizing
\* events; a surface error or a failing gui pass only when no hook fails.
\* What the hooks return in one iteration: one of them at most returns a
\* Transition other than None.
ReturnedByHooks ==
    {t \in TransitionKinds \X TransitionKinds \X TransitionKinds
                \X TransitionKinds \X TransitionKinds :
        \A i, j \in 1..5 : t[i] # "None" /\ t[j] # "None" => i = j}

\* The hooks whose Transition run_loop drops return None here.
ReturnedInFrame == {t \in ReturnedByHooks : t[4] = "None" /\ t[5] = "None"}

ReturnedOutOfFrame == {t \in ReturnedInFrame : t[2] = "None" /\ t[3] = "None"}

Returned(event) ==
    IF event = "MainEventsCleared" THEN ReturnedInFrame ELSE ReturnedOutOfFrame

HookFaults ==
    {[fail |-> n, acquire |-> "Ok", guiExecuteOk |-> TRUE] : n \in FailChoices}

FrameFaults ==
    {[fail |-> 0, acquire |-> a, guiExecuteOk |-> TRUE] : a \in AcquireOutcomes \ {"Ok"}}
        \cup {[fail |-> 0, acquire |-> "Ok", guiExecuteOk |-> FALSE]}

Faults(event) ==
    IF event = "MainEventsCleared" THEN HookFaults \cup FrameFaults ELSE HookFaults

ResizeSizes == {<<w, MaxDim>> : w \in {0, MaxDim}}

Sizes(event) ==
    IF event \in {"Resized", "ScaleFactorChanged"} THEN ResizeSizes ELSE {<<0, 0>>}

\* One call of the closure with the inputs given.  The event loop calls the
\* closure until Exit is set; a panic ends the process.
Iteration(event, gamepad, t, f, dimensions) ==
    /\ control_flow = "Poll"
    /\ ~Terminated
    /\ FinishLoop(run_loop(BeginLoop(states, running, f.fail, renderer, control_flow),
                           event, gamepad, t,
                           f.acquire, f.guiExecuteOk, dimensions),
                  event)

RunLoop ==
    \E event \in Events, gamepad \in BOOLEAN :
    \E t \in Returned(event), f \in Faults(event), dimensions \in Sizes(event) :
        Iteration(event, gamepad, t, f, dimensions)

NextApp == RunLoop

SpecApp == InitApp /\ [][NextApp]_vars

\* The calls of the closure in which no hook fails, the surface is acquired
\* and the gui pass executes: run_loop tabulated over the machines and
\* renderers an iteration can start from and over the inputs of such a call.
Stacks ==
    {st \in UNION {[1..n -> AppStateIds] : n \in 0..NumAppStateIds} :
        \A i, j \in DOMAIN st : st[i] = st[j] => i = j}

Renderers ==
    {WgpuRenderer_new(d) : d \in {<<1, 1>>} \cup {x \in ResizeSizes : x[1] # 0 /\ x[2] # 0}}

NoFaultInputs ==
    UNION {{<<event, gamepad, t, d>> :
                gamepad \in BOOLEAN, t \in Returned(event), d \in Sizes(event)} :
           event \in Events}

\* (f @@ <<>> is f, enumerated once by TLC.)
run_loop_no_fault ==
    [st \in Stacks, run \in BOOLEAN, r \in Renderers |->
        [x \in NoFaultInputs |->
            run_loop(BeginLoop(st, run, 0, r, "Poll"),
                     x[1], x[2], x[3], "Ok", TRUE, x[4])] @@ <<>>]
        @@ <<>>

RunLoopNoFault ==
    \E x \in NoFaultInputs :
        /\ control_flow = "Poll"
        /\ ~Terminated
        /\ FinishLoop(run_loop_no_fault[states, running, renderer][x], x[1])

NextAppNoFault == RunLoopNoFault

\* The event loop keeps calling the closure while it is not told to exit.
SpecAppFair == InitApp /\ [][NextAppNoFault]_vars /\ WF_vars(RunLoopNoFault)

\* The calls of the closure in which no hook fails and any one hook, those
\* whose Transition run_loop drops included, returns any Transition.
EventHooks == {"KeyEscapePressed", "KeyOther", "MouseInput", "DroppedFile"}

ReturnedTo(event, gamepad) ==
    {t \in ReturnedByHooks :
        /\ event # "MainEventsCleared" => t[2] = "None" /\ t[3] = "None"
        /\ ~gamepad => t[4] = "None"
        /\ event \notin EventHooks => t[5] = "None"}

NoFault == [fail |-> 0, acquire |-> "Ok", guiExecuteOk |-> TRUE]

RunLoopHooks ==
    \E event \in Events, gamepad \in BOOLEAN :
    \E t \in ReturnedTo(event, gamepad), dimensions \in Sizes(event) :
        Iteration(event, gamepad, t, NoFault, dimensions)

NextAppHooks == RunLoopHooks

SpecAppHooks == InitApp /\ [][NextAppHooks]_vars

----------------------------------------------------------------------------
\* Vocabulary of the run_loop properties: the steps and the hook invocations
\* of the last iteration.  Step i was taken after iter.steps[i].at hooks had
\* been invoked, so it precedes the invocations numbered above that.

LoopSteps(name) == {i \in 1..Len(iter.steps) : iter.steps[i].step = name}

HookCalls(h) == {k \in 1..Len(iter.calls) : iter.calls[k].hook = h}

FailedCalls == {k \in 1..Len(iter.calls) : ~iter.calls[k].ok}

StepBeforeCall(i, k) == iter.steps[i].at < k

CallBeforeStep(k, i) == k <= iter.steps[i].at

\* The step of run_loop during which hook invocation k was made.
StageOf(k) ==
    LET before == {i \in 1..Len(iter.steps) : StepBeforeCall(i, k)}
        last == CHOOSE i \in before : \A j \in before : j <= i
    IN  iter.steps[last].step

\* The step at which run_loop returned early or panicked.
LastStep == iter.steps[Len(iter.steps)].step

FrameSteps == {"update", "start_frame", "update_gui", "end_frame", "render"}

\* C15 (per-frame ordering): an iteration makes at most one StateMachine
\* update call (so at most one update hook invocation) and at most one render
\* call; the update call and its hook precede start_frame, start_frame
\* precedes end_frame and end_frame precedes render, for every one of these
\* steps that is taken; an iteration whose event is not MainEventsCleared
\* takes none of them; a MainEventsCleared iteration that returns Ok has
\* taken each exactly once.
C15_FrameOrdering ==
    /\ \A n \in FrameSteps : Cardinality(LoopSteps(n)) <= 1
    /\ Cardinality(HookCalls("update")) <= 1
    /\ iter.event # "MainEventsCleared" =>
           /\ \A n \in FrameSteps : LoopSteps(n) = {}
           /\ HookCalls("update") = {}
    /\ \A sf \in LoopSteps("start_frame") :
           /\ \E u \in LoopSteps("update") : u < sf
           /\ \A k \in HookCalls("update") : CallBeforeStep(k, sf)
    /\ \A ef \in LoopSteps("end_frame") : \E sf \in LoopSteps("start_frame") : sf < ef
    /\ \A r \in LoopSteps("render") : \E ef \in LoopSteps("end_frame") : ef < r
    /\ iter.event = "MainEventsCleared" /\ iter.res = "Ok" =>
           \A n \in FrameSteps : Cardinality(LoopSteps(n)) = 1

\* A frame on a running machine: update hook, gui frame build, render.
C15_Witness ==
    /\ iter.event = "MainEventsCleared"
    /\ iter.res = "Ok"
    /\ HookCalls("update") # {}
    /\ LoopSteps("render") # {}
    /\ LoopSteps("start_frame") # {}

\* C16 (Escape before generic dispatch), as stated: in an iteration
\* delivering a pressed Escape the control flow is set to Exit, and it is set
\* before the event reaches the top state's on_event or on_key hook.
C16_EscapeBeforeDispatch ==
    iter.event = "KeyEscapePressed" =>
        /\ control_flow = "Exit"
        /\ \A e \in LoopSteps("exit") :
               \A k \in HookCalls("on_event") \cup HookCalls("on_key") :
                   StepBeforeCall(e, k)

\* C16, amended: in an iteration delivering a pressed Escape the control flow
\* is set to Exit after the generic dispatch (lazy start, handle_event with
\* on_event and the hooks of its transition, the gamepad poll) and before the
\* key hook; it is set exactly when none of those returned an error or
\* panicked, whatever on_key does afterwards.
C16_EscapeAfterDispatch ==
    iter.event = "KeyEscapePressed" =>
        /\ control_flow = "Exit" <=> LoopSteps("exit") # {}
        /\ LoopSteps("exit") = {} <=>
               /\ iter.res # "Ok"
               /\ LastStep \in {"start", "handle_event", "on_gamepad_event"}
        /\ \A e \in LoopSteps("exit") :
               /\ \E h \in LoopSteps("handle_event") : h < e
               /\ \A k \in 1..Len(iter.calls) :
                      IF iter.calls[k].hook = "on_key"
                      THEN StepBeforeCall(e, k)
                      ELSE CallBeforeStep(k, e)
               /\ \E d \in LoopSteps("on_key") : e < d

\* Escape on a running machine: on_event ran, then Exit, then on_key failed.
C16_Witness ==
    /\ iter.event = "KeyEscapePressed"
    /\ control_flow = "Exit"
    /\ HookCalls("on_event") # {}
    /\ \E k \in HookCalls("on_key") : ~iter.calls[k].ok
    /\ iter.res = "Err"

\* C17 (close always works), as stated: an iteration that delivers a close
\* request for the application's window sets the control flow to Exit.
C17_CloseAlwaysExits ==
    iter.event = "CloseRequested" => control_flow = "Exit"

\* A Quit returned by a hook of the last iteration reached
\* StateMachine::transition while the machine was running.
QuitApplied == \E i \in 1..Len(iter.applied) : iter.applied[i].kind = "Quit"

\* C18 (Quit ends the run), as stated: once a Quit has been applied, the
\* control flow is eventually set to Exit.
C18_QuitLeadsToExit == QuitApplied ~> (control_flow = "Exit")

\* C19 (callback errors terminate the run), as stated: after an iteration in
\* which a State hook returned an error, no later iteration is executed.
C19_ErrorsTerminate ==
    FailedCalls # {} => Terminated \/ control_flow = "Exit"

\* C19, amended: an error of on_event, or of a lifecycle hook of the
\* transition on_event returned, panics and ends the run; an error of any
\* other hook makes run_loop return that error, which ends the iteration
\* only: the run is not terminated and the error sets no Exit.
C19_OnlyForwardedErrorsTerminate ==
    \A k \in FailedCalls :
        IF StageOf(k) = "handle_event"
        THEN /\ Terminated
             /\ iter.calls[k].hook \in {"on_event", "on_start", "on_stop",
                                        "on_pause", "on_resume"}
        ELSE /\ ~Terminated
             /\ iter.res = "Err"
             /\ iter.error = "HookError"
             /\ control_flow = "Exit" => LoopSteps("exit") # {}

\* update failed in a frame: the iteration returned the error, the loop goes on.
C19_Witness ==
    /\ \E k \in FailedCalls : iter.calls[k].hook = "update"
    /\ iter.res = "Err"
    /\ ~Terminated
    /\ control_flow = "Poll"

\* on_event failed: the expect panicked.
C19_WitnessPanic ==
    /\ \E k \in FailedCalls : iter.calls[k].hook = "on_event"
    /\ Terminated

----------------------------------------------------------------------------
\* The steps of the last Renderer call, by name, in order.
StepNames == [i \in 1..Len(rcall.steps) |-> rcall.steps[i].step]

FrameStepOrder ==
    <<"get_current_texture", "create_view", "gui_update_texture",
      "gui_update_user_textures", "gui_update_buffers", "create_command_encoder",
      "scene_render_pass", "gui_execute", "submit", "present">>

\* C21 (order within a frame): a render call whose render_frame succeeds
\* takes exactly the steps acquire, view, gui texture and buffer updates,
\* encoder, scene pass, gui overlay, submit, present, in that order; in every
\* render call the gui overlay is recorded after the scene pass, a present
\* follows a submit, and a present happens only after a successful acquire,
\* which is the first step of the call.
C21_FrameStepOrder ==
    rcall.name = "render" =>
        /\ rcall.acquire = "Ok" /\ rcall.ret = "Ok" => StepNames = FrameStepOrder
        /\ \A g \in StepsNamed("gui_execute") :
               \E sc \in StepsNamed("scene_render_pass") : sc < g
        /\ \A pr \in StepsNamed("present") :
               /\ \E sb \in StepsNamed("submit") : sb < pr
               /\ rcall.acquire = "Ok"
               /\ rcall.steps[1].step = "get_current_texture"
               /\ 1 < pr
        /\ \A sb \in StepsNamed("submit") :
               \E g \in StepsNamed("gui_execute") : g < sb

\* A frame that was acquired, recorded, submitted and presented.
C21_Witness ==
    /\ rcall.name = "render"
    /\ rcall.acquire = "Ok"
    /\ rcall.ret = "Ok"
    /\ StepsNamed("present") # {}
    /\ StepsNamed("scene_render_pass") # {}

----------------------------------------------------------------------------
\* The Transitions other than None that the machine applied in the last
\* iteration, by the StateMachine method that applied them.
AppliedBy(name) ==
    {i \in 1..Len(iter.applied) :
        iter.applied[i].call = name /\ iter.applied[i].kind # "None"}

DroppingHooks == {"on_key", "on_mouse", "on_file_dropped", "on_gamepad_event"}

----------------------------------------------------------------------------
\* The machine has stopped: it is not running and nothing is on the stack.
Stopped == ~running /\ states = <<>>

\* The inputs of one call of the closure: the event, whether a gamepad event
\* is pending, what the hooks return, what fails, the size of a resize.
LoopInputs ==
    UNION {UNION {{<<event, gamepad, t, f, dimensions>> :
                      t \in ReturnedTo(event, gamepad), f \in Faults(event),
                      dimensions \in Sizes(event)} :
                  gamepad \in BOOLEAN} :
           event \in Events}

\* What run_loop comes to on a machine that is not running and has nothing
\* on its stack, for every input, by renderer and control flow.
run_loop_stopped ==
    [r \in Renderers, cf \in {"Poll", "Exit"} |->
        {run_loop(BeginLoop(<<>>, FALSE, x[4].fail, r, cf),
                  x[1], x[2], x[3], x[4].acquire, x[4].guiExecuteOk, x[5]) :
            x \in LoopInputs}] @@ <<>>

\* An iteration that the lazy start ended with the empty-stack error.
EndedInStart(it) ==
    /\ it.res = "Err"
    /\ it.error = "EmptyStack"
    /\ it.steps = <<[step |-> "start", at |-> 0]>>
    /\ it.m.calls = <<>>
    /\ it.m.states = <<>>
    /\ ~it.m.running
    /\ it.r = renderer
    /\ it.cf = control_flow

\* C23 (a stopped machine stays stopped): a call in which running went from
\* true to false leaves the stack empty, and a machine that is not running
\* has an empty stack exactly when start() had succeeded before; every call
\* of a StateMachine method on such a machine invokes no hook, leaves the
\* stack empty and running false, and start() returns the empty-stack error;
\* every run_loop iteration on such a machine returns that error from the
\* lazy start, its only step, without invoking a hook or touching the
\* machine, the renderer or the control flow.
C23_StoppedStaysStopped ==
    /\ preRunning /\ ~running => states = <<>>
    /\ ~running => (started <=> states = <<>>)
    /\ op.name # "new" /\ ~preRunning /\ preStates = <<>> =>
           /\ calls = <<>>
           /\ Stopped
           /\ op.name = "start" => result = "EmptyStack"
    /\ Stopped =>
           \A it \in run_loop_stopped[renderer, control_flow] : EndedInStart(it)

\* start() called on a machine that Quit or the last Pop had stopped.
C23_Witness ==
    /\ op.name = "start"
    /\ started
    /\ ~preRunning
    /\ preStates = <<>>
    /\ result = "EmptyStack"
    /\ ~stopFailed

----------------------------------------------------------------------------
\* The first hook invocation of a call that ended as m is on_start on s.
StartsWith(m, s) ==
    /\ m.calls # <<>>
    /\ m.calls[1].hook = "on_start"
    /\ m.calls[1].state = s

\* C24 (a failed start is retried): a start() in which on_start returned an
\* error returns that error, having invoked nothing else, and leaves running
\* false and the stack as it was; the next start(), and the lazy start of the
\* next run_loop iteration, whatever its inputs, invokes on_start on the same
\* state again, before anything else; of two start() calls made first and in
\* a row, the second invokes on_start on the state whose on_start failed in
\* the first.
C24_FailedStartRetried ==
    /\ op.name = "start" /\ HookFailed(calls, "on_start") =>
           /\ result = "HookError"
           /\ calls = <<Call("on_start", Top(preStates), FALSE)>>
           /\ ~running
           /\ states = preStates
           /\ \A fail \in FailChoices :
                  StartsWith(start(Begin(states, running, fail)), Top(preStates))
           /\ \A x \in LoopInputs :
                  LET it == run_loop(BeginLoop(states, running, x[4].fail, renderer,
                                               control_flow),
                                     x[1], x[2], x[3], x[4].acquire,
                                     x[4].guiExecuteOk, x[5])
                  IN  /\ it.steps[1] = [step |-> "start", at |-> 0]
                      /\ StartsWith(it.m, Top(preStates))
    /\ Len(freshStarts.calls) = 2 /\ HookFailed(freshStarts.calls[1], "on_start") =>
           /\ freshStarts.calls[2] # <<>>
           /\ freshStarts.calls[2][1].hook = "on_start"
           /\ freshStarts.calls[2][1].state = freshStarts.calls[1][1].state

\* on_start failed in the first start() and returned Ok in the second.
C24_Witness ==
    /\ freshStarts.calls = <<(<<Call("on_start", InitialState, FALSE)>>),
                             (<<Call("on_start", InitialState, TRUE)>>)>>
    /\ op.name = "start"
    /\ ~preRunning
    /\ running
    /\ states = <<InitialState>>

----------------------------------------------------------------------------
\* The first hook invocation of a call that ended as m is h on s.
DispatchedTo(m, h, s) ==
    /\ m.calls # <<>>
    /\ m.calls[1].hook = h
    /\ m.calls[1].state = s

\* C25 (Push is not atomic on hook failure): when the on_pause of the top
\* state A fails in a Push(B) applied to a running machine, nothing else is
\* invoked, B is not pushed, the stack is as it was and the machine still
\* runs; when on_pause returned Ok (or the stack was empty) and the on_start
\* of B fails, B is on top of the old stack all the same and the machine
\* still runs; both calls return the hook's error; and after the second case
\* update and handle_event, whatever they go on to do, dispatch to B.
C25_PushNotAtomic ==
    /\ Applied("Push") /\ HookFailed(Lifecycle, "on_pause") =>
           /\ Lifecycle = <<Call("on_pause", Top(preStates), FALSE)>>
           /\ states = preStates
           /\ running
           /\ result = "HookError"
    /\ Applied("Push") /\ HookFailed(Lifecycle, "on_start") =>
           /\ Lifecycle[Len(Lifecycle)] = Call("on_start", op.tr.state, FALSE)
           /\ \A i \in 1..(Len(Lifecycle) - 1) :
                  Lifecycle[i] = Call("on_pause", Top(preStates), TRUE)
           /\ states = Append(preStates, op.tr.state)
           /\ running
           /\ result = "HookError"
           /\ \A fail \in FailChoices, tr \in Transitions(states) :
                  /\ DispatchedTo(update(Begin(states, running, fail), tr),
                                  "update", op.tr.state)
                  /\ DispatchedTo(handle_event(Begin(states, running, fail), tr),
                                  "on_event", op.tr.state)

\* B.on_start failed after A.on_pause: B sits on top of A in a running machine.
C25_Witness ==
    /\ Applied("Push")
    /\ preStates # <<>>
    /\ Lifecycle = <<Call("on_pause", Top(preStates), TRUE),
                     Call("on_start", op.tr.state, FALSE)>>
    /\ states = Append(preStates, op.tr.state)
    /\ running
    /\ result = "HookError"

----------------------------------------------------------------------------
\* C26 (on_stop runs after removal): when an on_stop fails in a Pop, a Switch
\* or a Quit applied to a running machine, the state whose on_stop failed is
\* no longer on the stack, no hook is invoked after it, the call returns the
\* error and the machine still runs.  Pop and Switch leave the old stack
\* without its top: the state beneath is not resumed, the new state of a
\* Switch is neither pushed nor started.  Quit leaves the states beneath the
\* failing one, the k-th from the top, on the stack: the old stack without
\* its top k states.
C26_StopAfterRemoval ==
    /\ (Applied("Pop") \/ Applied("Switch")) /\ HookFailed(Lifecycle, "on_stop") =>
           /\ Lifecycle = <<Call("on_stop", Top(preStates), FALSE)>>
           /\ states = Front(preStates)
           /\ running
           /\ result = "HookError"
    /\ Quitting /\ HookFailed(Lifecycle, "on_stop") =>
           LET n == Len(preStates)
               k == Len(Lifecycle)
           IN  /\ k <= n
               /\ \A i \in 1..k : Lifecycle[i] = Call("on_stop", preStates[n - i + 1], i < k)
               /\ states = SubSeq(preStates, 1, n - k)
               /\ running
               /\ result = "HookError"

\* The on_stop of the only state failed in a Pop: a running machine with an
\* empty stack.
C26_Witness ==
    /\ Applied("Pop")
    /\ Len(preStates) = 1
    /\ Lifecycle = <<Call("on_stop", preStates[1], FALSE)>>
    /\ states = <<>>
    /\ running

====
